---- MODULE Spec2Model ----
(***************************************************************************)
(* Model of the process-viewer server (server/src/main.rs): two sampler    *)
(* tasks publishing CPU and memory snapshots on tokio broadcast channels   *)
(* of capacity 1, the pull handlers get_cpus / get_memory reading the      *)
(* Arc<Mutex<..>> slots of AppState, and the websocket stream loops        *)
(* realtime_cpu_stream / realtime_memory_stream.                           *)
(*                                                                         *)
(* Spec      the samplers, the stream connections and the pull handlers    *)
(* FairSpec  samplers and streams, the sampler threads scheduled fairly    *)
(* FmtSpec   one call of to_human on arguments drawn from bounded sets     *)
(* PullSpec  concurrent pull requests at the grain of the Mutex            *)
(***************************************************************************)
EXTENDS Integers, Sequences, FiniteSets, TLC

(***************************************************************************)
(* Bounds of the model.                                                    *)
(***************************************************************************)
\* sampling cycles the two samplers start, in total, before the model stops them
MaxCycles == 2
\* websocket connections the model opens
MaxConns == 2

\* pull requests the model issues
MaxQueries == 2
\* largest explicit precision passed to to_human
MaxPrecision == 3
\* values taken on each side of a threshold of to_human
Span == 2

Conns == 1..MaxConns
Queries == 1..MaxQueries

\* Option<T>: None is the empty sequence, Some(v) the sequence of v alone
None == <<>>
Some(v) == <<v>>

(***************************************************************************)
(* HumanReadable for u64 :: to_human                                       *)
(***************************************************************************)
RECURSIVE Pow10(_)
Pow10(n) == IF n = 0 THEN 1 ELSE 10 * Pow10(n - 1)

RECURSIVE BitLen(_)
BitLen(a) == IF a = 0 THEN 0 ELSE 1 + BitLen(a \div 2)

\* n steps of binary long division of r / d: <<remainder, last quotient bit>>
RECURSIVE BinDiv(_, _, _, _)
BinDiv(r, d, n, bit) ==
    IF n = 0 THEN <<r, bit>>
    ELSE IF 2 * r >= d THEN BinDiv(2 * r - d, d, n - 1, 1)
                       ELSE BinDiv(2 * r, d, n - 1, 0)

\* a u64 held as hi * 10^9 + lo, with lo < 10^9
U64(hi, lo) == [hi |-> hi, lo |-> lo]

\* `self as f64 / d` for self = a * d + r with a >= 1, r < d and self < 2^53
\* (the conversion to f64 is exact): sign of (the binary64 quotient - the
\* exact quotient); the quotient keeps 53 significant bits, ties to even
F64DivErr(a, r, d) ==
    LET rb == BinDiv(r, d, 53 - BitLen(a), a % 2)
    IN  IF rb[1] = 0 THEN 0
        ELSE IF 2 * rb[1] < d THEN -1
        ELSE IF 2 * rb[1] > d THEN 1
        ELSE IF rb[2] = 1 THEN 1 ELSE -1

\* the decimal digits of n, zero-padded on the left to width w
RECURSIVE Pad(_, _)
Pad(n, w) == IF w = 0 THEN "" ELSE Pad(n \div 10, w - 1) \o ToString(n % 10)

\* format!("{:.*}", p, self as f64 / 10^k) for self = a * 10^k + r: the
\* binary64 quotient printed with p decimals, the exact value of the float
\* rounded half to even
FormatFixed(a, r, k, p) ==
    LET m     == Pow10(k - p)
        f     == r \div m
        rest  == r % m
        err   == F64DivErr(a, r, Pow10(k))
        last  == IF p = 0 THEN a ELSE f
        up    == \/ 2 * rest > m
                 \/ /\ 2 * rest = m
                    /\ \/ err = 1
                       \/ err = 0 /\ last % 2 = 1
        F     == IF p >= k THEN r * Pow10(p - k)
                 ELSE IF up THEN f + 1 ELSE f
        carry == p < k /\ F = Pow10(p)
        A     == IF carry THEN a + 1 ELSE a
    IN  IF p = 0 THEN ToString(A)
        ELSE ToString(A) \o "." \o Pad(IF carry THEN 0 ELSE F, p)

\* 0..=999, 1000..=999_999 instead of the ranges of the match
to_human_inclusive(self, precision) ==
    LET p == IF precision /= None THEN precision[1] ELSE 2
    IN  IF self.hi = 0 /\ self.lo <= 1000 THEN ToString(self.lo)
        ELSE IF self.hi = 0 /\ self.lo <= 1000000
             THEN FormatFixed(self.lo \div 1000, self.lo % 1000, 3, p) \o " KB"
        ELSE IF self.hi = 0 \/ self = U64(1, 0)
             THEN FormatFixed(self.hi * 1000 + self.lo \div 1000000, self.lo % 1000000, 6, p)
                  \o " MB"
        ELSE FormatFixed(self.hi, self.lo, 9, p) \o " GB"

to_human(self, precision) ==
    LET p == IF precision /= None THEN precision[1] ELSE 2
    IN  IF self.hi = 0 /\ self.lo <= 999 THEN ToString(self.lo)
        ELSE IF self.hi = 0 /\ self.lo <= 999999
             THEN FormatFixed(self.lo \div 1000, self.lo % 1000, 3, p) \o " KB"
        ELSE IF self.hi = 0
             THEN FormatFixed(self.lo \div 1000000, self.lo % 1000000, 6, p) \o " MB"
        ELSE FormatFixed(self.hi, self.lo, 9, p) \o " GB"

(***************************************************************************)
(* Snapshots and their serialisation                                       *)
(***************************************************************************)
\* struct CpuInfo; cpu_usage is a whole number of percent
CpuInfo(cpu_usage, frequency, vendor_id, brand) ==
    [cpu_usage |-> cpu_usage, frequency |-> frequency,
     vendor_id |-> vendor_id, brand |-> brand]

\* struct Memory
Memory(total_memory, used_memory, total_swap, used_swap) ==
    [total_memory |-> total_memory, used_memory |-> used_memory,
     total_swap |-> total_swap, used_swap |-> used_swap]

\* Memory::default(): four empty strings
MemoryDefault == Memory("", "", "", "")

\* what sys.cpus() can hold after sys.refresh_cpu(): one record per core.
\* One reading is enough here: the properties below are about positions and
\* cycle numbers, which tell the snapshots apart whatever their values.
CpuReadings ==
    { <<[usage |-> 50, frequency |-> 2400, vendor_id |-> "GenuineIntel", brand |-> "i7"]>> }

\* what sys holds after sys.refresh_memory(): byte counts
MemReadings ==
    { [total_memory |-> U64(2, 5000000), used_memory |-> U64(0, 1625),
        total_swap |-> U64(0, 1000), used_swap |-> U64(0, 999)] }

\* sys.cpus().iter().map(|cpu| CpuInfo {..}).collect()
BuildCpus(cpus) ==
    [i \in DOMAIN cpus |->
        CpuInfo(cpus[i].usage, cpus[i].frequency, cpus[i].vendor_id, cpus[i].brand)]

\* Memory { total_memory: sys.total_memory().to_human(None), .. }
BuildMemory(sys) ==
    Memory(to_human(sys.total_memory, None), to_human(sys.used_memory, None),
           to_human(sys.total_swap, None), to_human(sys.used_swap, None))

\* serde_json of one CpuInfo; a whole f32 prints with ".0"
CpuInfoJson(c) ==
    "{\"cpu_usage\":" \o ToString(c.cpu_usage) \o ".0"
    \o ",\"frequency\":" \o ToString(c.frequency)
    \o ",\"vendor_id\":\"" \o c.vendor_id
    \o "\",\"brand\":\"" \o c.brand \o "\"}"

RECURSIVE JoinCpus(_)
JoinCpus(v) ==
    IF Len(v) = 0 THEN ""
    ELSE IF Len(v) = 1 THEN CpuInfoJson(v[1])
    ELSE CpuInfoJson(v[1]) \o "," \o JoinCpus(Tail(v))

\* serde_json::to_string(&Vec<CpuInfo>)
CpusJson(v) == "[" \o JoinCpus(v) \o "]"

\* serde_json::to_string(&Memory)
MemoryJson(m) ==
    "{\"total_memory\":\"" \o m.total_memory
    \o "\",\"used_memory\":\"" \o m.used_memory
    \o "\",\"total_swap\":\"" \o m.total_swap
    \o "\",\"used_swap\":\"" \o m.used_swap \o "\"}"

(***************************************************************************)
(* tokio::sync::broadcast with capacity 1                                  *)
(***************************************************************************)
\* broadcast::channel(1) with its first receiver dropped (`let (tx, _) =`):
\* one slot, tagged with the position before the first one.  `rem` counts
\* the receivers that have yet to read the slot; `seq` is the number of the
\* sampling cycle that sent the value the slot holds.
Channel ==
    [pos |-> 0, rx_cnt |-> 0, closed |-> FALSE,
     slot |-> [pos |-> -1, rem |-> 0, val |-> None, seq |-> 0]]

Ok(v) == [ok |-> TRUE, v |-> <<v>>]
Err(e) == [ok |-> FALSE, v |-> <<e>>]

\* a send that keeps the slot while a receiver has yet to read it, and
\* drops the new value instead
SendKeepUnread(tx, value, seq) ==
    IF tx.rx_cnt = 0
    THEN [tx |-> tx, res |-> Err(value)]
    ELSE IF tx.slot.rem > 0
    THEN [tx |-> tx, res |-> Ok(tx.rx_cnt)]
    ELSE [tx |-> [tx EXCEPT !.pos = @ + 1,
                            !.slot = [pos |-> tx.pos, rem |-> tx.rx_cnt,
                                      val |-> Some(value), seq |-> seq]],
          res |-> Ok(tx.rx_cnt)]

\* a send that writes the slot without looking at the receiver count
SendUnchecked(tx, value, seq) ==
    [tx |-> [tx EXCEPT !.pos = @ + 1,
                       !.slot = [pos |-> tx.pos, rem |-> tx.rx_cnt,
                                 val |-> Some(value), seq |-> seq]],
     res |-> IF tx.rx_cnt = 0 THEN Err(value) ELSE Ok(tx.rx_cnt)]

\* Sender::send: fails when there is no receiver, else overwrites the slot
\* at the tail position and returns the number of receivers
Send(tx, value, seq) ==
    IF tx.rx_cnt = 0
    THEN [tx |-> tx, res |-> Err(value)]
    ELSE [tx |-> [tx EXCEPT !.pos = @ + 1,
                            !.slot = [pos |-> tx.pos, rem |-> tx.rx_cnt,
                                      val |-> Some(value), seq |-> seq]],
          res |-> Ok(tx.rx_cnt)]

\* Result<usize, _>::unwrap_or_default
unwrap_or_default(res) == IF res.ok THEN res.v[1] ELSE 0

\* a subscribe that positions the receiver on the value the slot holds
SubscribeReplay(tx) ==
    [tx |-> [tx EXCEPT !.rx_cnt = @ + 1],
     next |-> IF tx.pos > 0 THEN tx.pos - 1 ELSE tx.pos]

\* Sender::subscribe: a receiver positioned at the tail
Subscribe(tx) == [tx |-> [tx EXCEPT !.rx_cnt = @ + 1], next |-> tx.pos]

\* the slot once a receiver has read it
Taken(tx) == [tx EXCEPT !.slot.rem = @ - 1]

\* a recv that hands out the slot without advancing the receiver
RecvNoAdvance(tx, next) ==
    IF tx.slot.pos = next
    THEN [kind |-> "Ok", val |-> tx.slot.val[1], seq |-> tx.slot.seq,
          next |-> next, tx |-> tx]
    ELSE IF tx.slot.pos + 1 = next
    THEN [kind |-> IF tx.closed THEN "Closed" ELSE "Empty",
          val |-> None, seq |-> 0, next |-> next, tx |-> tx]
    ELSE [kind |-> "Lagged", val |-> None, seq |-> 0, next |-> tx.pos - 1, tx |-> tx]

\* Receiver::recv polled once with the receiver at `next`
Recv(tx, next) ==
    IF tx.slot.pos = next
    THEN [kind |-> "Ok", val |-> tx.slot.val[1], seq |-> tx.slot.seq,
          next |-> next + 1, tx |-> Taken(tx)]
    ELSE IF tx.slot.pos + 1 = next
    THEN [kind |-> IF tx.closed THEN "Closed" ELSE "Empty",
          val |-> None, seq |-> 0, next |-> next, tx |-> tx]
    ELSE LET nxt == tx.pos - 1
         IN  IF nxt - next = 0
             THEN [kind |-> "Ok", val |-> tx.slot.val[1], seq |-> tx.slot.seq,
                   next |-> next + 1, tx |-> Taken(tx)]
             ELSE [kind |-> "Lagged", val |-> None, seq |-> 0, next |-> nxt, tx |-> tx]

\* drop(Receiver) with the receiver at `next`: it leaves the channel and
\* releases the slot it has not read
DropRx(tx, next) ==
    [tx EXCEPT !.rx_cnt = @ - 1,
               !.slot.rem = IF next < tx.pos THEN @ - 1 ELSE @]

\* the remote end of a websocket by the time of the next send: once gone,
\* it stays gone
PeerNext(p) == IF p = "open" THEN {"open", "closed"} ELSE {"closed"}

\* WebSocket::send towards a peer that is "open" or "closed"
WsSend(p) == IF p = "open" THEN Ok("sent") ELSE Err("closed")

(***************************************************************************)
(* State                                                                   *)
(***************************************************************************)
VARIABLES
    tx_cpu,       \* AppState.tx_cpu: the CPU broadcast channel
    tx_memory,    \* AppState.tx_memory: the memory broadcast channel
    cpu_info,     \* AppState.cpu_info: Arc<Mutex<Vec<CpuInfo>>>
    memory,       \* AppState.memory: Arc<Mutex<Memory>>
    cpu_task,     \* start_cpu_info_task: position, local `cpus`, value of the send statement
    mem_task,     \* start_memory_data_collection_task: likewise with `memory_data`
    sent_cpu,     \* history: the snapshots passed to tx_cpu.send, in order
    sent_mem,     \* history: the snapshots passed to tx_memory.send, in order
    route,        \* per connection: the route it was opened on
    pc,           \* per connection: position of its handler / stream loop
    rx,           \* per connection: `rx`, the next position of its receiver
    msg,          \* per connection: `msg`, the value the loop holds
    peer,         \* per connection: whether the remote end is still there
    out,          \* per connection: history of the ws.send calls
    exit,         \* per connection: the RecvError that ended the loop
    sub_at,       \* per connection: history, cycles sent when it subscribed
    resp_cpus,    \* the last response of get_cpus
    resp_memory,  \* the last response of get_memory
    cpu_info_lock, \* the Mutex of AppState.cpu_info: 0, or the request holding it
    memory_lock,  \* the Mutex of AppState.memory: 0, or the request holding it
    query,        \* per pull request: its handler, position, copy and response
    human         \* a call of to_human: self, precision and the String returned

vars == <<tx_cpu, tx_memory, cpu_info, memory, cpu_task, mem_task, sent_cpu,
          sent_mem, route, pc, rx, msg, peer, out, exit, sub_at, resp_cpus,
          resp_memory, cpu_info_lock, memory_lock, query, human>>

cpu_vars == <<tx_cpu, cpu_info, cpu_task, sent_cpu, resp_cpus>>
mem_vars == <<tx_memory, memory, mem_task, sent_mem, resp_memory>>
conn_vars == <<route, pc, rx, msg, peer, out, exit, sub_at>>
pull_vars == <<cpu_info_lock, memory_lock, query>>

\* main: the channels, the AppState and the two tasks at their first
\* statement; no connection and no pull request yet
AppInit ==
    /\ tx_cpu = Channel
    /\ tx_memory = Channel
    /\ cpu_info = <<>>
    /\ memory = MemoryDefault
    /\ cpu_task = [pc |-> "refresh", cpus |-> None, ret |-> 0]
    /\ mem_task = [pc |-> "refresh", memory_data |-> None, ret |-> 0]
    /\ sent_cpu = <<>>
    /\ sent_mem = <<>>
    /\ route = [c \in Conns |-> ""]
    /\ pc = [c \in Conns |-> "idle"]
    /\ rx = [c \in Conns |-> 0]
    /\ msg = [c \in Conns |-> None]
    /\ peer = [c \in Conns |-> "open"]
    /\ out = [c \in Conns |-> <<>>]
    /\ exit = [c \in Conns |-> ""]
    /\ sub_at = [c \in Conns |-> 0]
    /\ resp_cpus = None
    /\ resp_memory = None
    /\ cpu_info_lock = 0
    /\ memory_lock = 0
    /\ query = [q \in Queries |-> [handler |-> "", pc |-> "idle", copy |-> None, resp |-> None]]

Init == AppInit /\ human = None

\* cycles started so far by the two samplers
Started ==
    Len(sent_cpu) + Len(sent_mem)
    + (IF cpu_task.pc = "send" THEN 1 ELSE 0) + (IF mem_task.pc = "send" THEN 1 ELSE 0)

(***************************************************************************)
(* start_cpu_info_task                                                     *)
(***************************************************************************)
\* sys.refresh_cpu(); let cpus = ..collect();
CpuRefresh ==
    /\ cpu_task.pc = "refresh"
    /\ Started < MaxCycles
    /\ \E reading \in CpuReadings :
          cpu_task' = [cpu_task EXCEPT !.pc = "send", !.cpus = Some(BuildCpus(reading))]
    /\ UNCHANGED <<tx_cpu, cpu_info, sent_cpu, resp_cpus, mem_vars, conn_vars>>
    /\ UNCHANGED <<pull_vars, human>>

\* a send that waits until every CPU subscriber has read the slot
CpuSendBounded ==
    /\ cpu_task.pc = "send"
    /\ \A c \in Conns :
          (route[c] = "/realtime/cpus" /\ pc[c] \in {"recv", "send"}) => rx[c] = tx_cpu.pos
    /\ LET s == Send(tx_cpu, cpu_task.cpus[1], Len(sent_cpu) + 1)
       IN  /\ tx_cpu' = s.tx
           /\ cpu_task' = [pc |-> "sleep", cpus |-> None, ret |-> unwrap_or_default(s.res)]
    /\ sent_cpu' = Append(sent_cpu, cpu_task.cpus[1])
    /\ UNCHANGED <<cpu_info, resp_cpus, mem_vars, conn_vars>>
    /\ UNCHANGED <<pull_vars, human>>

\* a loop that starts its next cycle right after an unsuccessful send
CpuSendSkipSleep ==
    /\ cpu_task.pc = "send"
    /\ LET s == Send(tx_cpu, cpu_task.cpus[1], Len(sent_cpu) + 1)
       IN  /\ tx_cpu' = s.tx
           /\ cpu_task' = [pc |-> IF s.res.ok THEN "sleep" ELSE "refresh",
                           cpus |-> None, ret |-> unwrap_or_default(s.res)]
    /\ sent_cpu' = Append(sent_cpu, cpu_task.cpus[1])
    /\ UNCHANGED <<cpu_info, resp_cpus, mem_vars, conn_vars>>
    /\ UNCHANGED <<pull_vars, human>>

\* a send statement that unwraps its result: the thread panics on Err
CpuSendUnwrap ==
    /\ cpu_task.pc = "send"
    /\ LET s == Send(tx_cpu, cpu_task.cpus[1], Len(sent_cpu) + 1)
       IN  /\ tx_cpu' = s.tx
           /\ cpu_task' = [pc |-> IF s.res.ok THEN "sleep" ELSE "panicked",
                           cpus |-> None, ret |-> unwrap_or_default(s.res)]
    /\ sent_cpu' = Append(sent_cpu, cpu_task.cpus[1])
    /\ UNCHANGED <<cpu_info, resp_cpus, mem_vars, conn_vars>>
    /\ UNCHANGED <<pull_vars, human>>

\* app_state.tx_cpu.send(cpus).unwrap_or_default();
CpuSend ==
    /\ cpu_task.pc = "send"
    /\ LET s == Send(tx_cpu, cpu_task.cpus[1], Len(sent_cpu) + 1)
       IN  /\ tx_cpu' = s.tx
           /\ cpu_task' = [pc |-> "sleep", cpus |-> None, ret |-> unwrap_or_default(s.res)]
    /\ sent_cpu' = Append(sent_cpu, cpu_task.cpus[1])
    /\ UNCHANGED <<cpu_info, resp_cpus, mem_vars, conn_vars>>
    /\ UNCHANGED <<pull_vars, human>>

\* std::thread::sleep(System::MINIMUM_CPU_UPDATE_INTERVAL);
CpuSleep ==
    /\ cpu_task.pc = "sleep"
    /\ cpu_task' = [cpu_task EXCEPT !.pc = "refresh"]
    /\ UNCHANGED <<tx_cpu, cpu_info, sent_cpu, resp_cpus, mem_vars, conn_vars>>
    /\ UNCHANGED <<pull_vars, human>>

(***************************************************************************)
(* start_memory_data_collection_task                                       *)
(***************************************************************************)
\* the values of `memory_data` that a cycle can build
MemSnapshots == {BuildMemory(sys) : sys \in MemReadings}

\* sys.refresh_memory(); let memory_data = Memory {..};
MemRefresh ==
    /\ mem_task.pc = "refresh"
    /\ Started < MaxCycles
    /\ \E memory_data \in MemSnapshots :
          mem_task' = [mem_task EXCEPT !.pc = "send", !.memory_data = Some(memory_data)]
    /\ UNCHANGED <<tx_memory, memory, sent_mem, resp_memory, cpu_vars, conn_vars>>
    /\ UNCHANGED <<pull_vars, human>>

\* a send statement that publishes on the CPU channel
MemSendOnCpuChannel ==
    /\ mem_task.pc = "send"
    /\ LET s == Send(tx_cpu, mem_task.memory_data[1], Len(sent_mem) + 1)
       IN  /\ tx_cpu' = s.tx
           /\ mem_task' = [pc |-> "sleep", memory_data |-> None,
                           ret |-> unwrap_or_default(s.res)]
    /\ sent_mem' = Append(sent_mem, mem_task.memory_data[1])
    /\ UNCHANGED <<tx_memory, memory, resp_memory, cpu_info, cpu_task, sent_cpu,
                   resp_cpus, conn_vars>>
    /\ UNCHANGED <<pull_vars, human>>

\* app_state.tx_memory.send(memory_data).unwrap_or_default();
MemSend ==
    /\ mem_task.pc = "send"
    /\ LET s == Send(tx_memory, mem_task.memory_data[1], Len(sent_mem) + 1)
       IN  /\ tx_memory' = s.tx
           /\ mem_task' = [pc |-> "sleep", memory_data |-> None,
                           ret |-> unwrap_or_default(s.res)]
    /\ sent_mem' = Append(sent_mem, mem_task.memory_data[1])
    /\ UNCHANGED <<memory, resp_memory, cpu_vars, conn_vars>>
    /\ UNCHANGED <<pull_vars, human>>

\* std::thread::sleep(System::MINIMUM_CPU_UPDATE_INTERVAL);
MemSleep ==
    /\ mem_task.pc = "sleep"
    /\ mem_task' = [mem_task EXCEPT !.pc = "refresh"]
    /\ UNCHANGED <<tx_memory, memory, sent_mem, resp_memory, cpu_vars, conn_vars>>
    /\ UNCHANGED <<pull_vars, human>>

(***************************************************************************)
(* get_cpus / get_memory                                                   *)
(***************************************************************************)
\* Json(body) answered with status 200
JsonResponse(body) == Some([status |-> 200, body |-> body])

\* a handler that answers 404 while the list is empty
get_cpus_not_found ==
    /\ resp_cpus' = IF cpu_info = <<>> THEN Some([status |-> 404, body |-> ""])
                    ELSE JsonResponse(CpusJson(cpu_info))
    /\ UNCHANGED <<tx_cpu, cpu_info, cpu_task, sent_cpu, mem_vars, conn_vars>>
    /\ UNCHANGED <<pull_vars, human>>

\* let cpu_info = state.cpu_info.lock().unwrap().clone(); Json(cpu_info)
get_cpus ==
    /\ resp_cpus' = JsonResponse(CpusJson(cpu_info))
    /\ UNCHANGED <<tx_cpu, cpu_info, cpu_task, sent_cpu, mem_vars, conn_vars>>
    /\ UNCHANGED <<pull_vars, human>>

\* let memory = state.memory.lock().unwrap().clone(); Json(memory)
get_memory ==
    /\ resp_memory' = JsonResponse(MemoryJson(memory))
    /\ UNCHANGED <<tx_memory, memory, mem_task, sent_mem, cpu_vars, conn_vars>>
    /\ UNCHANGED <<pull_vars, human>>

(***************************************************************************)
(* realtime_cpus_get / realtime_cpu_stream                                 *)
(***************************************************************************)
\* a connection not opened yet; ids are handed out in order
Fresh(c) == pc[c] = "idle" /\ \A d \in Conns : d < c => pc[d] /= "idle"

\* ws.on_upgrade(|ws| async { realtime_cpu_stream(state, ws).await }) and
\* the first statement of the stream: let mut rx = app_state.tx_cpu.subscribe();
realtime_cpus_get(c) ==
    /\ Fresh(c)
    /\ route' = [route EXCEPT ![c] = "/realtime/cpus"]
    /\ LET s == Subscribe(tx_cpu)
       IN  /\ tx_cpu' = s.tx
           /\ rx' = [rx EXCEPT ![c] = s.next]
    /\ sub_at' = [sub_at EXCEPT ![c] = Len(sent_cpu)]
    /\ pc' = [pc EXCEPT ![c] = "recv"]
    /\ UNCHANGED <<msg, peer, out, exit, cpu_info, cpu_task, sent_cpu,
                   resp_cpus, mem_vars>>
    /\ UNCHANGED <<pull_vars, human>>

\* while let Ok(msg) = rx.recv().await: the await completes with a value or
\* with an error; an error leaves the loop and drops rx and ws
CpuStreamRecv(c) ==
    /\ pc[c] = "recv" /\ route[c] = "/realtime/cpus"
    /\ LET r == Recv(tx_cpu, rx[c])
       IN  /\ r.kind /= "Empty"
           /\ rx' = [rx EXCEPT ![c] = r.next]
           /\ IF r.kind = "Ok"
              THEN /\ msg' = [msg EXCEPT ![c] = Some([val |-> r.val, seq |-> r.seq])]
                   /\ pc' = [pc EXCEPT ![c] = "send"]
                   /\ tx_cpu' = r.tx
                   /\ UNCHANGED exit
              ELSE /\ exit' = [exit EXCEPT ![c] = r.kind]
                   /\ pc' = [pc EXCEPT ![c] = "done"]
                   /\ tx_cpu' = DropRx(r.tx, r.next)
                   /\ UNCHANGED msg
    /\ UNCHANGED <<route, peer, out, sub_at, cpu_info, cpu_task, sent_cpu,
                   resp_cpus, mem_vars>>
    /\ UNCHANGED <<pull_vars, human>>

\* a loop that forwards the cache slot instead of the message received
CpuStreamSendCached(c) ==
    /\ pc[c] = "send" /\ route[c] = "/realtime/cpus"
    /\ \E now \in PeerNext(peer[c]) :
          LET payload == CpusJson(cpu_info)
              res     == WsSend(now)
          IN  /\ peer' = [peer EXCEPT ![c] = now]
              /\ out' = [out EXCEPT ![c] =
                    Append(@, [seq |-> msg[c][1].seq, payload |-> payload, ok |-> res.ok])]
    /\ msg' = [msg EXCEPT ![c] = None]
    /\ pc' = [pc EXCEPT ![c] = "recv"]
    /\ UNCHANGED <<route, rx, exit, sub_at, cpu_vars, mem_vars>>
    /\ UNCHANGED <<pull_vars, human>>

\* let payload = serde_json::to_string(&msg).unwrap();
\* ws.send(Message::Text(payload)).await.unwrap_or_default();
CpuStreamSend(c) ==
    /\ pc[c] = "send" /\ route[c] = "/realtime/cpus"
    /\ \E now \in PeerNext(peer[c]) :
          LET payload == CpusJson(msg[c][1].val)
              res     == WsSend(now)
          IN  /\ peer' = [peer EXCEPT ![c] = now]
              /\ out' = [out EXCEPT ![c] =
                    Append(@, [seq |-> msg[c][1].seq, payload |-> payload, ok |-> res.ok])]
    /\ msg' = [msg EXCEPT ![c] = None]
    /\ pc' = [pc EXCEPT ![c] = "recv"]
    /\ UNCHANGED <<route, rx, exit, sub_at, cpu_vars, mem_vars>>
    /\ UNCHANGED <<pull_vars, human>>

(***************************************************************************)
(* realtime_memory_get / realtime_memory_stream                            *)
(***************************************************************************)
\* ws.on_upgrade(|ws| async { crate::realtime_memory_stream(state, ws).await })
\* and the first statement of the stream:
\* let mut rx = app_state.tx_memory.subscribe();
realtime_memory_get(c) ==
    /\ Fresh(c)
    /\ route' = [route EXCEPT ![c] = "/realtime/memory"]
    /\ LET s == Subscribe(tx_memory)
       IN  /\ tx_memory' = s.tx
           /\ rx' = [rx EXCEPT ![c] = s.next]
    /\ sub_at' = [sub_at EXCEPT ![c] = Len(sent_mem)]
    /\ pc' = [pc EXCEPT ![c] = "recv"]
    /\ UNCHANGED <<msg, peer, out, exit, memory, mem_task, sent_mem,
                   resp_memory, cpu_vars>>
    /\ UNCHANGED <<pull_vars, human>>

\* while let Ok(msg) = rx.recv().await
MemStreamRecv(c) ==
    /\ pc[c] = "recv" /\ route[c] = "/realtime/memory"
    /\ LET r == Recv(tx_memory, rx[c])
       IN  /\ r.kind /= "Empty"
           /\ rx' = [rx EXCEPT ![c] = r.next]
           /\ IF r.kind = "Ok"
              THEN /\ msg' = [msg EXCEPT ![c] = Some([val |-> r.val, seq |-> r.seq])]
                   /\ pc' = [pc EXCEPT ![c] = "send"]
                   /\ tx_memory' = r.tx
                   /\ UNCHANGED exit
              ELSE /\ exit' = [exit EXCEPT ![c] = r.kind]
                   /\ pc' = [pc EXCEPT ![c] = "done"]
                   /\ tx_memory' = DropRx(r.tx, r.next)
                   /\ UNCHANGED msg
    /\ UNCHANGED <<route, peer, out, sub_at, memory, mem_task, sent_mem,
                   resp_memory, cpu_vars>>
    /\ UNCHANGED <<pull_vars, human>>

\* let payload = serde_json::to_string(&msg).unwrap();
\* ws.send(Message::Text(payload)).await.unwrap_or_default();
MemStreamSend(c) ==
    /\ pc[c] = "send" /\ route[c] = "/realtime/memory"
    /\ \E now \in PeerNext(peer[c]) :
          LET payload == MemoryJson(msg[c][1].val)
              res     == WsSend(now)
          IN  /\ peer' = [peer EXCEPT ![c] = now]
              /\ out' = [out EXCEPT ![c] =
                    Append(@, [seq |-> msg[c][1].seq, payload |-> payload, ok |-> res.ok])]
    /\ msg' = [msg EXCEPT ![c] = None]
    /\ pc' = [pc EXCEPT ![c] = "recv"]
    /\ UNCHANGED <<route, rx, exit, sub_at, cpu_vars, mem_vars>>
    /\ UNCHANGED <<pull_vars, human>>

Next ==
    \/ CpuRefresh
    \/ CpuSend
    \/ CpuSleep
    \/ MemRefresh
    \/ MemSend
    \/ MemSleep
    \/ get_cpus
    \/ get_memory
    \/ \E c \in Conns : realtime_cpus_get(c)
    \/ \E c \in Conns : CpuStreamRecv(c)
    \/ \E c \in Conns : CpuStreamSend(c)
    \/ \E c \in Conns : realtime_memory_get(c)
    \/ \E c \in Conns : MemStreamRecv(c)
    \/ \E c \in Conns : MemStreamSend(c)

Spec == Init /\ [][Next]_vars

\* each sampler runs on a blocking-pool thread of its own (spawn_blocking) that nothing
\* ever blocks: a step of it that is possible is eventually taken
SamplerFairness ==
    /\ WF_vars(CpuRefresh) /\ WF_vars(CpuSend) /\ WF_vars(CpuSleep)
    /\ WF_vars(MemRefresh) /\ WF_vars(MemSend) /\ WF_vars(MemSleep)

\* the samplers and the stream connections; the pull handlers, which
\* change nothing but their own response, are left out
FairNext ==
    \/ CpuRefresh
    \/ CpuSend
    \/ CpuSleep
    \/ MemRefresh
    \/ MemSend
    \/ MemSleep
    \/ \E c \in Conns : realtime_cpus_get(c)
    \/ \E c \in Conns : CpuStreamRecv(c)
    \/ \E c \in Conns : CpuStreamSend(c)
    \/ \E c \in Conns : realtime_memory_get(c)
    \/ \E c \in Conns : MemStreamRecv(c)
    \/ \E c \in Conns : MemStreamSend(c)

FairSpec == Init /\ [][FairNext]_vars /\ SamplerFairness

(***************************************************************************)
(* to_human on its own: one call on inputs drawn from bounded sets.        *)
(***************************************************************************)
\* the u64 arguments: the values around every threshold of the match,
\* values whose quotient ends in a 5 right after the last printed decimal,
\* and values beyond 2^31 and 2^32 up to 2^53 - 1
FmtValues ==
    {U64(0, n) : n \in 0..Span}
    \cup {U64(0, t + d) : t \in {1000, 1000000}, d \in (0 - Span)..Span}
    \cup {U64(0, 1000000000 - d) : d \in 1..Span}
    \cup {U64(1, d) : d \in 0..Span}
    \cup {U64(0, n) : n \in {1005, 1015, 1125, 1375, 1500, 999994, 999995,
                             1500000, 2500000, 999995000}}
    \cup {U64(2, 500000000), U64(2, 147483648), U64(4, 294967296),
          U64(2, 5000000), U64(2, 15000000), U64(9007199, 254740991)}

\* the Option<u8> arguments
FmtPrecisions == {None} \cup {Some(p) : p \in 0..MaxPrecision}

FmtInit ==
    /\ AppInit
    /\ human \in [self : FmtValues, precision : FmtPrecisions, text : {None}]

\* self.to_human(precision)
ToHuman ==
    /\ human.text = None
    /\ human' = [human EXCEPT !.text = Some(to_human(human.self, human.precision))]
    /\ UNCHANGED <<cpu_vars, mem_vars, conn_vars, pull_vars>>

FmtNext == ToHuman

FmtSpec == FmtInit /\ [][FmtNext]_vars

(***************************************************************************)
(* get_cpus / get_memory at the grain of the Mutex: concurrent requests,   *)
(* each one locking, copying and unlocking, then answering.                *)
(***************************************************************************)
\* router: .route("/api/cpus", get(get_cpus)).route("/api/memory", get(get_memory))
Request(q) ==
    /\ query[q].pc = "idle"
    /\ \E h \in {"get_cpus", "get_memory"} :
          query' = [query EXCEPT ![q].handler = h, ![q].pc = "lock"]
    /\ UNCHANGED <<cpu_info_lock, memory_lock, cpu_vars, mem_vars, conn_vars, human>>

\* state.cpu_info.lock().unwrap(): waits while another request holds the Mutex
get_cpus_lock(q) ==
    /\ query[q].pc = "lock" /\ query[q].handler = "get_cpus"
    /\ cpu_info_lock = 0
    /\ cpu_info_lock' = q
    /\ query' = [query EXCEPT ![q].pc = "clone"]
    /\ UNCHANGED <<memory_lock, cpu_vars, mem_vars, conn_vars, human>>

\* a clone whose guard stays alive until the handler returns
get_cpus_clone_keep_guard(q) ==
    /\ query[q].pc = "clone" /\ query[q].handler = "get_cpus"
    /\ query' = [query EXCEPT ![q].copy = Some(cpu_info), ![q].pc = "json"]
    /\ UNCHANGED <<cpu_info_lock, memory_lock, cpu_vars, mem_vars, conn_vars, human>>

\* let cpu_info = <guard>.clone(); the temporary guard is dropped at the
\* end of the statement
get_cpus_clone(q) ==
    /\ query[q].pc = "clone" /\ query[q].handler = "get_cpus"
    /\ query' = [query EXCEPT ![q].copy = Some(cpu_info), ![q].pc = "json"]
    /\ cpu_info_lock' = 0
    /\ UNCHANGED <<memory_lock, cpu_vars, mem_vars, conn_vars, human>>

\* Json(cpu_info)
get_cpus_json(q) ==
    /\ query[q].pc = "json" /\ query[q].handler = "get_cpus"
    /\ query' = [query EXCEPT ![q].resp = JsonResponse(CpusJson(query[q].copy[1])),
                              ![q].copy = None, ![q].pc = "done"]
    /\ UNCHANGED <<cpu_info_lock, memory_lock, cpu_vars, mem_vars, conn_vars, human>>

\* state.memory.lock().unwrap()
get_memory_lock(q) ==
    /\ query[q].pc = "lock" /\ query[q].handler = "get_memory"
    /\ memory_lock = 0
    /\ memory_lock' = q
    /\ query' = [query EXCEPT ![q].pc = "clone"]
    /\ UNCHANGED <<cpu_info_lock, cpu_vars, mem_vars, conn_vars, human>>

\* let memory = <guard>.clone();
get_memory_clone(q) ==
    /\ query[q].pc = "clone" /\ query[q].handler = "get_memory"
    /\ query' = [query EXCEPT ![q].copy = Some(memory), ![q].pc = "json"]
    /\ memory_lock' = 0
    /\ UNCHANGED <<cpu_info_lock, cpu_vars, mem_vars, conn_vars, human>>

\* Json(memory)
get_memory_json(q) ==
    /\ query[q].pc = "json" /\ query[q].handler = "get_memory"
    /\ query' = [query EXCEPT ![q].resp = JsonResponse(MemoryJson(query[q].copy[1])),
                              ![q].copy = None, ![q].pc = "done"]
    /\ UNCHANGED <<cpu_info_lock, memory_lock, cpu_vars, mem_vars, conn_vars, human>>

\* the requests, with the two samplers running beside them
PullNext ==
    \/ CpuRefresh
    \/ CpuSend
    \/ CpuSleep
    \/ MemRefresh
    \/ MemSend
    \/ MemSleep
    \/ \E q \in Queries : Request(q)
    \/ \E q \in Queries : get_cpus_lock(q)
    \/ \E q \in Queries : get_cpus_clone(q)
    \/ \E q \in Queries : get_cpus_json(q)
    \/ \E q \in Queries : get_memory_lock(q)
    \/ \E q \in Queries : get_memory_clone(q)
    \/ \E q \in Queries : get_memory_json(q)

PullSpec == Init /\ [][PullNext]_vars

(***************************************************************************)
(* Properties                                                              *)
(***************************************************************************)
CpuRoute == "/realtime/cpus"
MemRoute == "/realtime/memory"

\* the channel, the send history and the serialiser of a connection's family
TxOf(c) == IF route[c] = CpuRoute THEN tx_cpu ELSE tx_memory
SentOf(c) == IF route[c] = CpuRoute THEN sent_cpu ELSE sent_mem
JsonOf(c, v) == IF route[c] = CpuRoute THEN CpusJson(v) ELSE MemoryJson(v)

\* the loop of connection c is running
Running(c) == pc[c] \in {"recv", "send"}

\* cycle numbers of the snapshots the loop of c has taken from its channel
Taken_seqs(c) ==
    [i \in 1..Len(out[c]) |-> out[c][i].seq]
    \o (IF pc[c] = "send" THEN <<msg[c][1].seq>> ELSE <<>>)

\* cycle numbers of the snapshots that reached the remote end of c
Forwarded(c) == {out[c][i].seq : i \in {j \in DOMAIN out[c] : out[c][j].ok}}

\* C1: once a sampler has completed a cycle, its cache slot holds the
\* snapshot that the latest completed cycle published.
C1_CacheHoldsLastPublished ==
    /\ Len(sent_cpu) > 0 => cpu_info = sent_cpu[Len(sent_cpu)]
    /\ Len(sent_mem) > 0 => memory = sent_mem[Len(sent_mem)]

\* C2: a failed ws.send ends the stream loop at once: the failed send is the
\* last one of its connection and the loop is over.
C2_SendFailureEndsLoop ==
    \A c \in Conns : \A i \in DOMAIN out[c] :
        ~out[c][i].ok => (i = Len(out[c]) /\ pc[c] = "done")

\* C3: a subscriber that falls behind only loses messages: no stream loop
\* ends with the Lagged error.
C3_OverflowKeepsLoop == \A c \in Conns : exit[c] /= "Lagged"

\* C4: every snapshot published after a connection subscribed is forwarded
\* to it while its remote end is there; so a loop that has ended with the
\* remote end still there has forwarded every such snapshot.
C4_EveryPublishedForwarded ==
    \A c \in Conns :
        (pc[c] = "done" /\ peer[c] = "open") =>
            \A k \in (sub_at[c] + 1)..Len(SentOf(c)) : k \in Forwarded(c)

\* C5: a connection only ever takes snapshots published after it subscribed,
\* and a subscribe step changes neither the slot of the channel nor any
\* other connection.
C5_NoReplayInv ==
    \A c \in Conns : \A i \in DOMAIN Taken_seqs(c) : Taken_seqs(c)[i] > sub_at[c]

C5_SubscribeFrame ==
    \A c \in Conns :
        (pc[c] = "idle" /\ pc'[c] /= "idle") =>
            /\ tx_cpu'.slot = tx_cpu.slot /\ tx_cpu'.pos = tx_cpu.pos
            /\ tx_memory'.slot = tx_memory.slot /\ tx_memory'.pos = tx_memory.pos
            /\ \A d \in Conns \ {c} :
                  /\ rx'[d] = rx[d] /\ msg'[d] = msg[d] /\ out'[d] = out[d]
                  /\ pc'[d] = pc[d] /\ exit'[d] = exit[d]

C5_NoReplay == []C5_NoReplayInv /\ [][C5_SubscribeFrame]_vars

\* a connection that subscribed after another one of its route, with a
\* snapshot already in the slot, and has forwarded a snapshot since
C5_Witness ==
    \E c, d \in Conns :
        /\ route[c] = route[d] /\ sub_at[d] < sub_at[c]
        /\ Len(out[c]) >= 1

\* C6: what a connection is sent is a subsequence of what its sampler
\* published: strictly increasing cycle numbers, each payload the
\* serialisation of the snapshot of that cycle.
C6_ForwardedIsSubsequence ==
    \A c \in Conns :
        /\ \A i \in DOMAIN out[c] :
              /\ out[c][i].seq \in 1..Len(SentOf(c))
              /\ out[c][i].payload = JsonOf(c, SentOf(c)[out[c][i].seq])
        /\ \A i, j \in DOMAIN out[c] : i < j => out[c][i].seq < out[c][j].seq

C6_Witness == \E c \in Conns : Len(out[c]) >= 2

\* C7: a sampler at its send statement can always take that step, whatever
\* the subscribers have left unread.
C7_PublishNeverBlocks ==
    /\ cpu_task.pc = "send" => ENABLED CpuSend
    /\ mem_task.pc = "send" => ENABLED MemSend

\* the CPU sampler has sent twice to a subscriber that has read neither
C7_Witness ==
    /\ cpu_task.pc = "sleep"
    /\ \E c \in Conns : route[c] = CpuRoute /\ Running(c) /\ tx_cpu.pos - rx[c] >= 2

\* C8: a running connection that has at most the latest snapshot left to
\* read has taken every snapshot published since it subscribed, once each
\* and in order, whatever the other connections do.
C8_PromptSubscriberGetsAll ==
    \A c \in Conns :
        (Running(c) /\ TxOf(c).pos - rx[c] <= 1) =>
            Taken_seqs(c) =
                [i \in 1..(Len(SentOf(c)) - sub_at[c] - (TxOf(c).pos - rx[c])) |->
                    sub_at[c] + i]

\* a connection that has taken two snapshots while another connection of
\* the same route has fallen behind or has been dropped for it
C8_Witness ==
    \E c, d \in Conns :
        /\ c /= d /\ route[c] = route[d]
        /\ Running(c) /\ Len(Taken_seqs(c)) >= 2
        /\ \/ exit[d] = "Lagged"
           \/ Running(d) /\ TxOf(d).pos - rx[d] >= 2

\* C9: a send on a channel without receivers changes neither the channel
\* nor any connection, and the sampler goes on to sleep.
C9_Step ==
    /\ (cpu_task.pc = "send" /\ cpu_task' /= cpu_task /\ tx_cpu.rx_cnt = 0) =>
          /\ tx_cpu' = tx_cpu /\ cpu_task'.pc = "sleep" /\ cpu_task'.ret = 0
          /\ UNCHANGED conn_vars
    /\ (mem_task.pc = "send" /\ mem_task' /= mem_task /\ tx_memory.rx_cnt = 0) =>
          /\ tx_memory' = tx_memory /\ mem_task'.pc = "sleep" /\ mem_task'.ret = 0
          /\ UNCHANGED conn_vars

C10_PullReturnsCache ==
    /\ resp_cpus /= None =>
          /\ resp_cpus[1].status = 200
          /\ resp_cpus[1].body = CpusJson(cpu_info)
          /\ Len(sent_cpu) = 0 => resp_cpus[1].body = "[]"
    /\ resp_memory /= None =>
          /\ resp_memory[1].status = 200
          /\ resp_memory[1].body = MemoryJson(memory)
          /\ Len(sent_mem) = 0 =>
                resp_memory[1].body =
                    "{\"total_memory\":\"\",\"used_memory\":\"\",\"total_swap\":\"\",\"used_swap\":\"\"}"

\* both handlers have answered before any cycle
C10_Witness ==
    /\ resp_cpus /= None /\ resp_memory /= None
    /\ Len(sent_cpu) = 0 /\ Len(sent_mem) = 0

\* C11: neither sampler loop ever ends. Under fair scheduling of the two
\* sampler threads every cycle the bound MaxCycles allows is started and
\* completed, whatever its outcome (no subscriber, a lagging subscriber),
\* and both samplers are back at the head of their loops: nothing but the
\* bound keeps them from the next cycle.
C11_SamplersRunForever ==
    <>[](/\ Len(sent_cpu) + Len(sent_mem) = MaxCycles
         /\ cpu_task.pc = "refresh"
         /\ mem_task.pc = "refresh")

\* both samplers completed a cycle, one of them found no subscriber
C11_Witness ==
    /\ Len(sent_cpu) > 0 /\ Len(sent_mem) > 0
    /\ cpu_task.pc = "refresh" /\ mem_task.pc = "refresh"
    /\ tx_cpu.pos = 0

\* everything one connection holds
ConnState(c) == <<route[c], pc[c], rx[c], msg[c], peer[c], out[c], exit[c], sub_at[c]>>

\* the state of the CPU subsystem: its channel with its subscriptions, its
\* cache slot, its sampler, and the connections opened on the CPU route
C12_CpuSide ==
    <<tx_cpu, cpu_info, cpu_task, sent_cpu, resp_cpus,
      [c \in Conns |-> IF route[c] = CpuRoute THEN ConnState(c) ELSE None]>>

\* the state of the memory subsystem, likewise
C12_MemSide ==
    <<tx_memory, memory, mem_task, sent_mem, resp_memory,
      [c \in Conns |-> IF route[c] = MemRoute THEN ConnState(c) ELSE None]>>

\* C12: the CPU and the memory subsystem never interact: a step that
\* changes anything of one of them (channel, subscriptions, cache slot,
\* sampler, connections) leaves the whole of the other unchanged.
C12_Step == C12_CpuSide' = C12_CpuSide \/ C12_MemSide' = C12_MemSide
C12_SubsystemsIndependent == [][C12_Step]_vars

\* both subsystems have been active: a CPU connection has forwarded a
\* snapshot while a memory connection is subscribed and memory was published
C12_Witness ==
    \E c, d \in Conns :
        /\ route[c] = CpuRoute /\ Len(out[c]) > 0
        /\ route[d] = MemRoute /\ Running(d)
        /\ Len(sent_mem) > 0

\* the tier of a value: the power of ten it is divided by, and the unit
C13_Tier(v) ==
    IF v.hi > 0 THEN 9 ELSE IF v.lo >= 1000000 THEN 6 ELSE IF v.lo >= 1000 THEN 3 ELSE 0
C13_Unit(k) == IF k = 3 THEN " KB" ELSE IF k = 6 THEN " MB" ELSE " GB"

\* whole part and remainder of v / 10^k
C13_Whole(v, k) ==
    IF k = 9 THEN v.hi ELSE v.lo \div Pow10(k)
C13_Rem(v, k) ==
    IF k = 9 THEN v.lo ELSE v.lo % Pow10(k)

\* the decimal a.f with p decimals
C13_Decimal(a, f, p) ==
    IF p = 0 THEN ToString(a) ELSE ToString(a) \o "." \o Pad(f, p)

\* v / 10^k cut after p decimals, the next decimal with p decimals above
\* it, and twice the part cut off compared with one unit of the last decimal
C13_Cut(v, k, p) ==
    LET a == C13_Whole(v, k)
        r == C13_Rem(v, k)
        m == IF p < k THEN Pow10(k - p) ELSE 1
        f == IF p < k THEN r \div m ELSE r * Pow10(p - k)
        rest == IF p < k THEN r % m ELSE 0
        last == IF p = 0 THEN a ELSE f
    IN  [down |-> C13_Decimal(a, f, p),
         up   |-> IF f + 1 = Pow10(p) THEN C13_Decimal(a + 1, 0, p)
                  ELSE C13_Decimal(a, f + 1, p),
         cmp  |-> IF 2 * rest < m THEN -1 ELSE IF 2 * rest = m THEN 0 ELSE 1,
         odd  |-> last % 2 = 1]

C13_Precision == IF human.precision = None THEN 2 ELSE human.precision[1]

\* the examples of the claim
C13_Examples ==
    { <<U64(0, 0), None, "0">>, <<U64(0, 999), None, "999">>,
      <<U64(0, 1000), None, "1.00 KB">>, <<U64(0, 1500000), None, "1.50 MB">>,
      <<U64(2, 500000000), None, "2.50 GB">>, <<U64(0, 1000), Some(0), "1 KB">> }

\* the tiers, the unit and the examples of the claim
C13_TierAndUnit(nearest(_)) ==
    LET v == human.self
        k == C13_Tier(v)
        t == human.text[1]
    IN  /\ k = 0 => t = ToString(v.lo)
        /\ k > 0 => \E d \in nearest(C13_Cut(v, k, C13_Precision)) : t = d \o C13_Unit(k)
        /\ \A e \in C13_Examples :
              (v = e[1] /\ human.precision = e[2]) => t = e[3]

\* standard decimal rounding: to the nearest decimal, a quotient half way
\* between two decimals going up (half up) or to the even one (half even)
C13_StandardRounding(c) ==
    IF c.cmp < 0 THEN {c.down}
    ELSE IF c.cmp > 0 THEN {c.up}
    ELSE IF c.odd THEN {c.up} ELSE {c.up, c.down}

\* rounding to a nearest decimal, a quotient half way going either way
C13_NearestRounding(c) ==
    IF c.cmp < 0 THEN {c.down}
    ELSE IF c.cmp > 0 THEN {c.up}
    ELSE {c.up, c.down}

\* C13 as stated: to_human picks the tier by base-1000 thresholds and
\* prints the quotient at `precision` decimals by standard decimal
\* rounding, for every value and precision.
C13_ToHumanStandardRounding ==
    human.text /= None => C13_TierAndUnit(C13_StandardRounding)

\* C13 as amended: to_human picks the tier by base-1000 thresholds and
\* prints a decimal with `precision` decimals nearest to the quotient; a
\* quotient half way between two decimals goes either way.  The call
\* never fails: it returns for every argument.
C13_ToHumanNearest ==
    /\ human.text /= None => C13_TierAndUnit(C13_NearestRounding)
    /\ human.text = None => ENABLED ToHuman

\* a call whose quotient, 1.015, is half way between two decimals and is
\* printed as the lower one
C13_Witness ==
    /\ human.self = U64(0, 1015)
    /\ human.precision = None
    /\ human.text = Some("1.01 KB")

\* cycle numbers of the snapshots the hub of connection c still holds for
\* it: published at or after the position of its receiver, not yet taken
C14_Retained(c) ==
    IF TxOf(c).slot.val /= None /\ TxOf(c).slot.pos >= rx[c]
    THEN {TxOf(c).slot.seq} ELSE {}

\* number of snapshots published to the hub of c that it has not taken
C14_Behind(c) == TxOf(c).pos - rx[c]

\* C14: a hub retains at most one unconsumed snapshot for a subscriber:
\* whenever a subscriber is behind, by however many publishes, exactly the
\* latest published snapshot of its family is held for it and every older
\* one is gone.
C14_DepthOne ==
    \A c \in Conns :
        Running(c) =>
            /\ C14_Behind(c) >= 0
            /\ Cardinality(C14_Retained(c)) <= 1
            /\ C14_Behind(c) = 0 => C14_Retained(c) = {}
            /\ C14_Behind(c) > 0 =>
                  /\ C14_Retained(c) = {Len(SentOf(c))}
                  /\ TxOf(c).slot.val = Some(SentOf(c)[Len(SentOf(c))])

\* a subscriber two publishes behind: the older snapshot was discarded
C14_Witness ==
    \E c \in Conns : Running(c) /\ C14_Behind(c) = 2

\* the request holding the lock that request q is waiting for, 0 if none
C15_Holder(q) == IF query[q].handler = "get_cpus" THEN cpu_info_lock ELSE memory_lock

\* the step request q takes while it holds a lock
C15_CanCopy(q) == ENABLED get_cpus_clone(q) \/ ENABLED get_memory_clone(q)

\* C15: pull requests cannot deadlock or tear a read.  A lock is held only
\* by a request that is at its copy, the copy can always be taken, no
\* request holds two locks, a request waiting for a lock waits for one
\* that can take its copy, and a finished request has answered with the
\* whole value of the slot.
C15_PullNeverBlocks ==
    \A q \in Queries :
        /\ cpu_info_lock = q =>
              query[q].pc = "clone" /\ query[q].handler = "get_cpus"
        /\ memory_lock = q =>
              query[q].pc = "clone" /\ query[q].handler = "get_memory"
        /\ ~(cpu_info_lock = q /\ memory_lock = q)
        /\ query[q].pc = "clone" => C15_Holder(q) = q /\ C15_CanCopy(q)
        /\ query[q].pc = "lock" =>
              \/ ENABLED get_cpus_lock(q) \/ ENABLED get_memory_lock(q)
              \/ C15_Holder(q) \in Queries /\ C15_CanCopy(C15_Holder(q))
        /\ query[q].pc = "json" => ENABLED get_cpus_json(q) \/ ENABLED get_memory_json(q)
        /\ query[q].pc = "done" =>
              query[q].resp = IF query[q].handler = "get_cpus"
                              THEN JsonResponse(CpusJson(cpu_info))
                              ELSE JsonResponse(MemoryJson(memory))

\* two requests on the CPU slot at once, after the CPU sampler has
\* published: one holds the lock at its copy, the other waits for it
C15_Witness ==
    \E q, w \in Queries :
        /\ query[q].pc = "clone" /\ cpu_info_lock = q
        /\ query[w].pc = "lock" /\ query[w].handler = "get_cpus"
        /\ Len(sent_cpu) > 0

\* the order of the statements of a sampler loop
C16_Order == {<<"refresh", "send">>, <<"send", "sleep">>, <<"sleep", "refresh">>}

\* a step of a sampler, given its position and the number of snapshots it
\* has published before and after: it moves on by one statement of the
\* loop, a snapshot is built by the refresh step only and published, once,
\* by the step from send to sleep only
C16_InOrder(from, to, built, published_before, published_after) ==
    /\ from /= to => <<from, to>> \in C16_Order
    /\ built => (from = "refresh" /\ to = "send")
    /\ published_after /= published_before =>
          /\ from = "send" /\ to = "sleep"
          /\ published_after = published_before + 1
    /\ (from = "send" /\ to = "sleep") => published_after = published_before + 1

\* C16: each sampler goes through refresh and build, publish, sleep in
\* this order: between two refreshes of a sampler there is exactly one
\* publish and one sleep, and the sleep comes last.
C16_Step ==
    /\ C16_InOrder(cpu_task.pc, cpu_task'.pc,
                   cpu_task'.cpus /= None /\ cpu_task'.cpus /= cpu_task.cpus,
                   Len(sent_cpu), Len(sent_cpu'))
    /\ C16_InOrder(mem_task.pc, mem_task'.pc,
                   mem_task'.memory_data /= None
                       /\ mem_task'.memory_data /= mem_task.memory_data,
                   Len(sent_mem), Len(sent_mem'))
C16_CycleOrder == [][C16_Step]_vars

\* the CPU sampler has refreshed for the second time, after a cycle whose
\* publish found no subscriber
C16_Witness ==
    /\ cpu_task.pc = "send"
    /\ Len(sent_cpu) = 1
    /\ tx_cpu.pos = 0

\* the serialisations of the snapshots the sampler of the family of c has
\* published since c subscribed
C17_Published(c) ==
    {JsonOf(c, SentOf(c)[k]) : k \in (sub_at[c] + 1)..Len(SentOf(c))}

\* the serialisations of everything the other family has published
C17_OtherFamily(c) ==
    IF route[c] = CpuRoute
    THEN {MemoryJson(sent_mem[k]) : k \in DOMAIN sent_mem}
    ELSE {CpusJson(sent_cpu[k]) : k \in DOMAIN sent_cpu}

\* the serialisations of the cache slots and of the default values
C17_CachedOrDefault ==
    {CpusJson(cpu_info), MemoryJson(memory), CpusJson(<<>>), MemoryJson(MemoryDefault)}

\* C17: every message a stream loop hands to its websocket is the
\* serialisation of a snapshot that the sampler of the connection's own
\* family published after the connection subscribed: never a snapshot of
\* the other family, never the content of a cache slot or a default value.
C17_OnlyPublishedForwarded ==
    \A c \in Conns :
        out[c] /= <<>> =>
            LET published == C17_Published(c)
                foreign   == C17_OtherFamily(c) \cup C17_CachedOrDefault
            IN  \A i \in DOMAIN out[c] :
                    /\ out[c][i].seq \in (sub_at[c] + 1)..Len(SentOf(c))
                    /\ out[c][i].payload \in published
                    /\ out[c][i].payload \notin foreign

\* a CPU connection and a memory connection have each forwarded a message
C17_Witness ==
    \E c, d \in Conns :
        /\ route[c] = CpuRoute /\ out[c] /= <<>>
        /\ route[d] = MemRoute /\ out[d] /= <<>>

====
